---- MODULE Spec2Model ----
(***************************************************************************)
(* FabrikChain (src/src/ik.rs) and the part of the host (src/src/main.rs)  *)
(* that drives it.                                                         *)
(*                                                                         *)
(* Geometry.  Joints are restricted to points (x, 0, 0) with a small       *)
(* integer x, where f32 arithmetic is exact.  A Vec3 or f32 value is the   *)
(* set {x}; the empty set is NaN, so NaN propagates through every          *)
(* operation as it does in IEEE arithmetic.  Angles are kept in units of   *)
(* pi ({1} is std::f32::consts::PI).                                       *)
(*                                                                         *)
(* Option<T> is a sequence of length at most one: <<>> is None, <<v>> is   *)
(* Some(v).  Rust indices are 0-based; At(s, i) reads s[i].                *)
(*                                                                         *)
(* A panic (index out of range, usize underflow, unwrap on None, todo!(),  *)
(* a failed assert) ends the process: the operation's result is "panic"    *)
(* and no action is enabled afterwards.  The two overflow behaviours of    *)
(* usize (debug: panic on the subtraction, release: wrap and panic on the  *)
(* index) both end in a panic at the places modelled here.                 *)
(* SystemTime::elapsed() is assumed not to fail (monotone clock).          *)
(***************************************************************************)
EXTENDS Integers, Sequences, FiniteSets, TLC

\* Bounds of the model.
MaxJoints == 3
MaxIter == 2
MaxDepth == 2
MaxSteps == 4

VARIABLES chain, log, ui_lock_ground, limb_state, messages

vars == <<chain, log, ui_lock_ground, limb_state, messages>>

-----------------------------------------------------------------------------
\* Values

None == <<>>
Some(v) == <<v>>
Unwrap(o) == o[1]

NaN == {}
Vec3(x) == {x}
ZERO == {0}
PI == {1}

At(s, i) == s[i + 1]
InRange(s, i) == i >= 0 /\ i < Len(s)

Abs(x) == IF x < 0 THEN -x ELSE x
Sign(x) == IF x > 0 THEN 1 ELSE IF x < 0 THEN -1 ELSE 0

VAdd(a, b) == {x + y : x \in a, y \in b}
VSub(a, b) == {x - y : x \in a, y \in b}
VMul(a, s) == {x * y : x \in a, y \in s}
\* Vec3::normalize: the zero vector gives NaN (0 * (1/0)).
normalize(v) == {Sign(x) : x \in v \ {0}}
distance(a, b) == {Abs(x - y) : x \in a, y \in b}
\* Vec3::angle_between on collinear vectors: 0 or pi; NaN when either is zero.
angle_between(u, v) == {IF x * y > 0 THEN 0 ELSE 1 : x \in u \ {0}, y \in v \ {0}}

\* Elapsed whole microseconds since prev_time: 0, or some positive count.
Elapsed == {0, 1}

\* (angle - prev_angle) / dt, up to the magnitude of a positive dt.
Velocity(angle, prev, dt) ==
    IF angle = NaN \/ prev = NaN THEN "NaN"
    ELSE LET d == CHOOSE x \in VSub(angle, prev) : TRUE
         IN IF dt = 0
            THEN (IF d = 0 THEN "NaN" ELSE IF d > 0 THEN "+inf" ELSE "-inf")
            ELSE (IF d = 0 THEN "0" ELSE IF d > 0 THEN "+" ELSE "-")

PoseDiscrepancy ==
    {"WithinTolerance", "MildDivergence", "SevereDivergence", "EnvironmentalCompensation"}

LimbState == {"RealLimb", "FantasyLimb"}

\* What an operation hands back: the chain as the operation left it, and
\* whether it returned (ok) or panicked.
Ret(c) == [chain |-> c, ok |-> TRUE]
Panic(c) == [chain |-> c, ok |-> FALSE]

-----------------------------------------------------------------------------
\* FabrikChain

\* recalculate_segments deriving one velocity per joint, whatever the angle
\* history holds.
recalculate_segments_per_joint(c, dt) ==
    LET n == Len(c.joints)
        vel == [i \in 1..n |-> Velocity(c.angles[i], c.prev_angles[i], dt)]
        Seg(i) == LET a == At(c.joints, i)
                      b == At(c.joints, i - 1)
                  IN [translation2 |-> VAdd(a, b), ab_vector |-> normalize(VSub(b, a))]
        tr == [k \in 1..(n - 1) |-> Seg(k)]
    IN IF Len(c.angles) < n \/ Len(c.prev_angles) < n THEN Panic(c)
       ELSE IF Len(tr) # Len(c.lengths)
       THEN Panic([c EXCEPT !.angular_velocities = vel, !.segment_transforms = tr])
       ELSE Ret([c EXCEPT !.angular_velocities = vel, !.segment_transforms = tr])

\* A Transform is kept as twice its translation (a + b) and the segment's
\* unit direction, from which the rotation is built.
recalculate_segments(c, dt) ==
    LET np == Len(c.prev_angles)
        n == Len(c.joints)
        vel == [i \in 1..np |-> Velocity(c.angles[i], c.prev_angles[i], dt)]
        Seg(i) == LET a == At(c.joints, i)
                      b == At(c.joints, i - 1)
                  IN [translation2 |-> VAdd(a, b), ab_vector |-> normalize(VSub(b, a))]
        tr == [k \in 1..(n - 1) |-> Seg(k)]
        c1 == [c EXCEPT !.angular_velocities = vel, !.segment_transforms = tr]
    IN IF Len(c.angles) < np THEN Panic(c)
       ELSE IF Len(tr) # Len(c.lengths) THEN Panic(c1)
       ELSE Ret(c1)

\* Line 56 reads `for i in i..joints.len()`; the range is taken to start at
\* 1, the start for which lengths has one entry per segment and the
\* assertion that ends recalculate_segments holds.
new(joints, dt) ==
    LET n == Len(joints)
        lengths == [k \in 1..(n - 1) |-> distance(At(joints, k), At(joints, k - 1))]
        new_self == [joints |-> joints,
                     lengths |-> lengths,
                     prev_angles |-> <<>>,
                     angles |-> <<>>,
                     angular_velocities |-> <<>>,
                     initial_state |-> None,
                     segment_transforms |-> <<>>,
                     targets |-> <<>>,
                     lock_ground |-> TRUE,
                     limb |-> None]
        final_self == [new_self EXCEPT !.limb = Some(new_self),
                                       !.initial_state = Some(new_self)]
    IN recalculate_segments(final_self, dt)

\* finalize that captures the committed state as the initial snapshot too.
finalize_recaptures(c) ==
    LET new_fantasy == c
    IN [c EXCEPT !.limb = Some(new_fantasy), !.initial_state = Some(new_fantasy)]

\* finalize that commits the initial snapshot instead of the current state.
finalize_from_snapshot(c) ==
    [c EXCEPT !.limb = c.initial_state]

finalize(c) ==
    LET new_fantasy == c
    IN [c EXCEPT !.limb = Some(new_fantasy)]

\* reset that restores everything but the ground-lock flag.
reset_keeps_lock(c, dt) ==
    IF c.initial_state = None THEN Panic(c)
    ELSE LET inital_state == Unwrap(c.initial_state)
         IN recalculate_segments(
                [inital_state EXCEPT !.initial_state = Some(inital_state),
                                     !.lock_ground = c.lock_ground], dt)

reset(c, dt) ==
    IF c.initial_state = None THEN Panic(c)
    ELSE LET inital_state == Unwrap(c.initial_state)
         IN recalculate_segments(
                [inital_state EXCEPT !.initial_state = Some(inital_state)], dt)

RECURSIVE fwd_from(_, _)
\* The body of fwd_reach's loop at index i, then the indices below it.
fwd_from(c, i) ==
    IF i < 0 THEN Ret(c)
    ELSE IF ~InRange(c.joints, i) \/ ~InRange(c.joints, i - 1) THEN Panic(c)
    ELSE LET a == At(c.joints, i)
             b == At(c.joints, i - 1)
             direction == normalize(VSub(a, b))
         IN IF ~InRange(c.lengths, i) THEN Panic(c)
            ELSE fwd_from([c EXCEPT !.joints[i + 1] =
                               VAdd(b, VMul(direction, At(c.lengths, i)))], i - 1)

\* for i in (0..self.joints.len() - 1).rev(): len() - 1 underflows on no joints.
fwd_reach(c) ==
    IF Len(c.joints) = 0 THEN Panic(c) ELSE fwd_from(c, Len(c.joints) - 2)

RECURSIVE bwd_from(_, _)
\* The body of bwd_reach's loop at index i, then the indices above it.
bwd_from(c, i) ==
    IF i > Len(c.joints) - 2 THEN Ret(c)
    ELSE IF ~InRange(c.joints, i) \/ ~InRange(c.joints, i - 1) THEN Panic(c)
    ELSE LET a == At(c.joints, i)
             b == At(c.joints, i - 1)
             direction == normalize(VSub(b, a))
         IN IF ~InRange(c.lengths, i) \/ ~InRange(c.joints, i + 1) THEN Panic(c)
            ELSE bwd_from([c EXCEPT !.joints[i + 2] =
                               VAdd(a, VMul(direction, At(c.lengths, i)))], i + 1)

bwd_reach(c) ==
    IF Len(c.joints) = 0 THEN Panic(c) ELSE bwd_from(c, 0)

\* recalculate_angles without the push that follows the loop.
recalculate_angles_no_tail(c) ==
    LET n == Len(c.joints)
        Interior(i) == LET a == At(c.joints, i - 2)
                           b == At(c.joints, i - 1)
                           cc == At(c.joints, i)
                       IN angle_between(VSub(a, b), VSub(cc, b))
        inner == [k \in 1..(n - 2) |-> Interior(k + 1)]
    IN [c EXCEPT !.prev_angles = c.angles,
                 !.angles = <<PI>> \o inner]

recalculate_angles(c) ==
    LET n == Len(c.joints)
        Interior(i) == LET a == At(c.joints, i - 2)
                           b == At(c.joints, i - 1)
                           cc == At(c.joints, i)
                       IN angle_between(VSub(a, b), VSub(cc, b))
        inner == [k \in 1..(n - 2) |-> Interior(k + 1)]
    IN [c EXCEPT !.prev_angles = c.angles,
                 !.angles = <<PI>> \o inner \o <<PI>>]

RECURSIVE apply_targets_remeasure(_, _)
\* apply_targets that measures lengths again from the joints it has moved.
apply_targets_remeasure(c, k) ==
    IF k > Len(c.targets) THEN Ret(c)
    ELSE LET index == c.targets[k][1]
             pos == c.targets[k][2]
             moved == IF InRange(c.joints, index)
                      THEN [c.joints EXCEPT ![index + 1] = pos] ELSE c.joints
             measured == [j \in 1..(Len(moved) - 1) |->
                             distance(At(moved, j), At(moved, j - 1))]
         IN IF ~InRange(c.joints, index) THEN Panic(c)
            ELSE apply_targets_remeasure(
                     [c EXCEPT !.joints = moved, !.lengths = measured], k + 1)

RECURSIVE apply_targets(_, _)
\* for (index, pos) in self.targets.iter() { self.joints[*index] = *pos; }
apply_targets(c, k) ==
    IF k > Len(c.targets) THEN Ret(c)
    ELSE LET index == c.targets[k][1]
             pos == c.targets[k][2]
         IN IF ~InRange(c.joints, index) THEN Panic(c)
            ELSE apply_targets([c EXCEPT !.joints[index + 1] = pos], k + 1)

\* if self.lock_ground { self.joints.first_mut().unwrap().clone_from(&Vec3::ZERO); }
ground_lock(c) ==
    IF ~c.lock_ground THEN Ret(c)
    ELSE IF Len(c.joints) = 0 THEN Panic(c)
    ELSE Ret([c EXCEPT !.joints[1] = ZERO])

\* for i in 0..self.joints.len() { dbg!(self.angles[i]); }
dbg_angles(c) ==
    IF Len(c.angles) < Len(c.joints) THEN Panic(c) ELSE Ret(c)

Step(r, ev) == [chain |-> r.chain, ok |-> r.ok, events |-> ev]

\* One round of the WithinTolerance loop; events names the steps entered.
solve_round(c) ==
    LET t == apply_targets(c, 1)
        f == fwd_reach(t.chain)
        g == ground_lock(f.chain)
        gev == IF f.chain.lock_ground THEN <<"lock">> ELSE <<>>
        b == bwd_reach(g.chain)
        d == dbg_angles(b.chain)
    IN IF ~t.ok THEN Step(t, <<"targets">>)
       ELSE IF ~f.ok THEN Step(f, <<"targets", "fwd">>)
       ELSE IF ~g.ok THEN Step(g, <<"targets", "fwd">> \o gev)
       ELSE IF ~b.ok THEN Step(b, <<"targets", "fwd">> \o gev \o <<"bwd">>)
       ELSE Step(d, <<"targets", "fwd">> \o gev \o <<"bwd">>)

RECURSIVE solve_rounds(_, _, _)
\* for _ in 0..iterations: the rounds still to run, after `done` completed ones.
solve_rounds(c, left, done) ==
    IF left = 0 THEN [chain |-> c, ok |-> TRUE, events |-> <<>>, rounds |-> done]
    ELSE LET r == solve_round(c)
         IN IF ~r.ok
            THEN [chain |-> r.chain, ok |-> FALSE, events |-> r.events, rounds |-> done]
            ELSE LET rest == solve_rounds(r.chain, left - 1, done + 1)
                 IN [rest EXCEPT !.events = r.events \o rest.events]

\* The MildDivergence loop: it reads the preview's joints and the angles and
\* writes nothing.
mild_divergence(c) ==
    IF Len(c.joints) = 0 THEN Ret(c)
    ELSE IF c.limb = None THEN Panic(c)
    ELSE IF Len(Unwrap(c.limb).joints) < Len(c.joints) THEN Panic(c)
    ELSE IF Len(c.angles) < Len(c.joints) THEN Panic(c)
    ELSE Ret(c)

Outcome(r, ev, rounds, mode) ==
    [chain |-> r.chain, ok |-> r.ok, events |-> ev, rounds |-> rounds,
     kinematics_mode |-> mode]

solve(c, iterations, pose_discrepancy, mode, dt) ==
    CASE pose_discrepancy = "WithinTolerance" ->
            LET w == solve_rounds(recalculate_angles(c), iterations, 0)
                s == recalculate_segments(w.chain, dt)
            IN IF ~w.ok
               THEN Outcome(w, <<"angles">> \o w.events, w.rounds, "InverseKinematics")
               ELSE Outcome(s, <<"angles">> \o w.events \o <<"segments">>, w.rounds,
                            "InverseKinematics")
      [] pose_discrepancy = "MildDivergence" ->
            LET m == mild_divergence(c)
                s == recalculate_segments(m.chain, dt)
            IN IF ~m.ok THEN Outcome(m, <<>>, 0, "ForwardKinematics")
               ELSE Outcome(s, <<"segments">>, 0, "ForwardKinematics")
      [] OTHER -> Outcome(Panic(c), <<>>, 0, mode)

-----------------------------------------------------------------------------
\* The host (main.rs) and the process

RECURSIVE Depth(_)
\* How many preview chains are nested below chain c.
Depth(c) == IF c.limb = None THEN 0 ELSE 1 + Depth(Unwrap(c.limb))

\* The x coordinates joints and targets are given: the unit lattice points.
Coords == {0, 1}

JointLists == UNION {[1..n -> {Vec3(x) : x \in Coords}] : n \in 0..MaxJoints}

\* The process runs until a panic; the model follows it for MaxSteps operations.
Alive == log.result # "panic" /\ log.step < MaxSteps
Built == chain # None
Self == Unwrap(chain)

\* LimbData::get / get_mut: the chain itself, or its preview (unwrap).
HasLimb(c, state) == state = "RealLimb" \/ c.limb # None
get(c, state) == IF state = "RealLimb" THEN c ELSE Unwrap(c.limb)
put(c, state, limb) == IF state = "RealLimb" THEN limb ELSE [c EXCEPT !.limb = Some(limb)]

\* The record of the last operation: what was called, on which chain, with
\* what arguments, and how it ended; born keeps what construction produced.
Entry(op, on, result) ==
    [op |-> op, on |-> on, result |-> result, pose_discrepancy |-> "-",
     iterations |-> 0, rounds |-> 0, events |-> <<>>, kinematics_mode |-> "-",
     born |-> log.born, step |-> log.step + 1]

Result(ok) == IF ok THEN "ok" ELSE "panic"

Init ==
    /\ chain = None
    /\ log = [op |-> "init", on |-> "RealLimb", result |-> "ok", pose_discrepancy |-> "-",
              iterations |-> 0, rounds |-> 0, events |-> <<>>, kinematics_mode |-> "-",
              born |-> None, step |-> 0]
    /\ ui_lock_ground = TRUE
    /\ limb_state = "RealLimb"
    /\ messages = {}

Birth(c) == Some([joints |-> c.joints, lengths |-> c.lengths, lock_ground |-> c.lock_ground])

\* FabrikChain::new called on its own.
New(joints, dt) ==
    /\ ~Built /\ Alive
    /\ LET r == new(joints, dt)
       IN /\ chain' = Some(r.chain)
          /\ log' = [Entry("new", "RealLimb", Result(r.ok)) EXCEPT !.born = Birth(r.chain)]
    /\ UNCHANGED <<ui_lock_ground, limb_state, messages>>

\* setup: new, finalize, and a SyncTransform message.
Setup(joints, dt) ==
    /\ ~Built /\ Alive
    /\ LET r == new(joints, dt)
       IN /\ chain' = Some(IF r.ok THEN finalize(r.chain) ELSE r.chain)
          /\ log' = [Entry("setup", "RealLimb", Result(r.ok)) EXCEPT !.born = Birth(r.chain)]
    /\ messages' = messages \cup {"SyncTransform"}
    /\ UNCHANGED <<ui_lock_ground, limb_state>>

Finalize ==
    /\ Built /\ Alive
    /\ Depth(Self) < MaxDepth
    /\ chain' = Some(finalize(Self))
    /\ log' = Entry("finalize", "RealLimb", "ok")
    /\ UNCHANGED <<ui_lock_ground, limb_state, messages>>

Reset(dt) ==
    /\ Built /\ Alive
    /\ LET r == reset(Self, dt)
       IN /\ chain' = Some(r.chain)
          /\ log' = Entry("reset", "RealLimb", Result(r.ok))
    /\ UNCHANGED <<ui_lock_ground, limb_state, messages>>

\* display_ui, "Reset All" clicked.
DisplayUiResetAll(dt) ==
    /\ Built /\ Alive
    /\ LET r == reset(Self, dt)
       IN /\ chain' = Some(r.chain)
          /\ log' = Entry("reset", "RealLimb", Result(r.ok))
    /\ messages' = messages \cup {"SyncTransform"}
    /\ UNCHANGED <<ui_lock_ground, limb_state>>

\* The body of the "Lock Ground" branch, given the checkbox's new value.
lock_ground_changed(c, value) ==
    LET c1 == [c EXCEPT !.lock_ground = value]
    IN IF c1.limb = None THEN Panic(c1)
       ELSE Ret([c1 EXCEPT !.limb = Some([Unwrap(c1.limb) EXCEPT !.lock_ground = value])])

\* display_ui, the "Lock Ground" checkbox changed.
DisplayUiLockGround ==
    /\ Built /\ Alive
    /\ ui_lock_ground' = ~ui_lock_ground
    /\ LET r == lock_ground_changed(Self, ~ui_lock_ground)
       IN /\ chain' = Some(r.chain)
          /\ log' = Entry("lock_ground", "RealLimb", Result(r.ok))
    /\ UNCHANGED <<limb_state, messages>>

\* display_ui, a LimbState radio button clicked; handle_limb_switch follows.
DisplayUiLimbState(state) ==
    /\ Built /\ Alive
    /\ state # limb_state
    /\ limb_state' = state
    /\ messages' = messages \cup {"SyncTransform"}
    /\ log' = Entry("limb_state", "RealLimb", "ok")
    /\ UNCHANGED <<chain, ui_lock_ground>>

\* move_limb, for one GizmoUpdate message about the control ball `index`.
MoveLimb(index, pos) ==
    /\ Built /\ Alive
    /\ InRange(Self.joints, index)
    /\ IF HasLimb(Self, limb_state)
       THEN /\ chain' = Some(put(Self, limb_state,
                                 [get(Self, limb_state) EXCEPT !.targets = <<<<index, pos>>>>]))
            /\ log' = Entry("move_limb", limb_state, "ok")
            /\ messages' = messages \cup {"RecomputeLimb"}
       ELSE /\ log' = Entry("move_limb", limb_state, "panic")
            /\ UNCHANGED <<chain, messages>>
    /\ UNCHANGED <<ui_lock_ground, limb_state>>

\* The call of solve on the chain `state` selects, and its record.
Solved(op, state, iterations, pose_discrepancy, dt) ==
    \E r \in {solve(get(Self, state), iterations, pose_discrepancy, "InverseKinematics", dt)} :
       /\ chain' = Some(put(Self, state, r.chain))
       /\ log' = [Entry(op, state, Result(r.ok)) EXCEPT
                     !.pose_discrepancy = pose_discrepancy,
                     !.iterations = iterations,
                     !.rounds = r.rounds,
                     !.events = r.events,
                     !.kinematics_mode = r.kinematics_mode]

HostIterations == 10

\* recompute_limb
RecomputeLimb(dt) ==
    /\ Built /\ Alive
    /\ "RecomputeLimb" \in messages
    /\ IF HasLimb(Self, limb_state)
       THEN /\ Solved("solve", limb_state, HostIterations, "WithinTolerance", dt)
            /\ messages' = (messages \ {"RecomputeLimb"}) \cup
                              (IF log'.result = "ok" THEN {"SyncTransform"} ELSE {})
       ELSE /\ log' = Entry("recompute_limb", limb_state, "panic")
            /\ UNCHANGED <<chain, messages>>
    /\ UNCHANGED <<ui_lock_ground, limb_state>>

\* FabrikChain::solve called on the chain itself.
Solve(iterations, pose_discrepancy, dt) ==
    /\ Built /\ Alive
    /\ Solved("solve", "RealLimb", iterations, pose_discrepancy, dt)
    /\ UNCHANGED <<ui_lock_ground, limb_state, messages>>

\* solve called on the preview chain, as recompute_limb does through
\* LimbData::get_mut when the preview is selected.
SolvePreview(iterations, pose_discrepancy, dt) ==
    /\ Built /\ Alive
    /\ IF HasLimb(Self, "FantasyLimb")
       THEN Solved("solve", "FantasyLimb", iterations, pose_discrepancy, dt)
       ELSE /\ log' = Entry("get_mut", "FantasyLimb", "panic")
            /\ UNCHANGED chain
    /\ UNCHANGED <<ui_lock_ground, limb_state, messages>>

Called(op, r) ==
    /\ chain' = Some(r.chain)
    /\ log' = Entry(op, "RealLimb", Result(r.ok))
    /\ UNCHANGED <<ui_lock_ground, limb_state, messages>>

FwdReach == Built /\ Alive /\ Called("fwd_reach", fwd_reach(Self))

BwdReach == Built /\ Alive /\ Called("bwd_reach", bwd_reach(Self))

RecalculateAngles ==
    Built /\ Alive /\ Called("recalculate_angles", Ret(recalculate_angles(Self)))

\* What a sync system reads: true when every read succeeds.
sync_ball_reads(c) == Len(c.joints) = 0 \/ c.limb # None
sync_ctrl_ball_reads(c, state) == HasLimb(c, state)
sync_segment_reads(c) ==
    \/ Len(c.lengths) = 0
    \/ /\ Len(c.segment_transforms) >= Len(c.lengths)
       /\ c.limb # None
       /\ Len(Unwrap(c.limb).segment_transforms) >= Len(c.lengths)

Synced(op, reads) ==
    /\ Built /\ Alive
    /\ "SyncTransform" \in messages
    /\ log' = Entry(op, "RealLimb", Result(reads))
    /\ UNCHANGED <<chain, ui_lock_ground, limb_state, messages>>

SyncBallTransform == Synced("sync_ball_transform", sync_ball_reads(Self))

SyncCtrlBallTransform ==
    Synced("sync_ctrl_ball_transform", sync_ctrl_ball_reads(Self, limb_state))

SyncSegmentTransform == Synced("sync_segment_transform", sync_segment_reads(Self))

\* Messages not read within their frames are dropped.
MessagesExpire ==
    /\ Alive /\ messages # {}
    /\ messages' = {}
    /\ log' = [log EXCEPT !.step = @ + 1]
    /\ UNCHANGED <<chain, ui_lock_ground, limb_state>>

\* The chain driven through its own operations and public fields.
Next ==
    \/ \E joints \in JointLists, dt \in Elapsed : New(joints, dt)
    \/ Finalize
    \/ \E dt \in Elapsed : Reset(dt)
    \/ DisplayUiLockGround
    \/ \E index \in 0..(MaxJoints - 1), x \in Coords : MoveLimb(index, Vec3(x))
    \/ \E k \in 0..MaxIter, pd \in PoseDiscrepancy, dt \in Elapsed : Solve(k, pd, dt)
    \/ \E k \in 0..MaxIter, pd \in PoseDiscrepancy, dt \in Elapsed :
          SolvePreview(k, pd, dt)
    \/ FwdReach
    \/ BwdReach
    \/ RecalculateAngles

Spec == Init /\ [][Next]_vars

\* The chain driven by the host's systems.
NextHost ==
    \/ \E joints \in JointLists, dt \in Elapsed : Setup(joints, dt)
    \/ \E dt \in Elapsed : DisplayUiResetAll(dt)
    \/ DisplayUiLockGround
    \/ \E state \in LimbState : DisplayUiLimbState(state)
    \/ \E index \in 0..(MaxJoints - 1), x \in Coords : MoveLimb(index, Vec3(x))
    \/ \E dt \in Elapsed : RecomputeLimb(dt)
    \/ SyncBallTransform
    \/ SyncCtrlBallTransform
    \/ SyncSegmentTransform
    \/ MessagesExpire

SpecHost == Init /\ [][NextHost]_vars

-----------------------------------------------------------------------------
\* Properties

\* The chain the last operation acted on, and what construction produced.
Acted == get(Self, log.on)
Born == Unwrap(log.born)
SolvedAs(pd) == Built /\ log.op = "solve" /\ log.pose_discrepancy = pd
Returned == log.result = "ok"

\* A chain as the data model describes it: two joints or more, and every
\* segment of positive length.
WellFormed ==
    /\ Built
    /\ Len(Born.joints) >= 2
    /\ \A k \in 1..Len(Born.lengths) : Born.lengths[k] # ZERO

\* C1: in every state the preview chain of a chain holds no preview chain of
\* its own, however many times finalize has been called.
C1_PreviewHoldsNoPreview ==
    (WellFormed /\ Self.limb # None) => Unwrap(Self.limb).limb = None

\* C2: a reset that returns leaves the joints, the lengths and the
\* ground-lock flag that construction produced, and a reset that follows a
\* reset changes nothing.
C2_ResetRestoresConstruction ==
    [][(log'.op = "reset" /\ log'.result = "ok") =>
          /\ Unwrap(chain').joints = Born.joints
          /\ Unwrap(chain').lengths = Born.lengths
          /\ Unwrap(chain').lock_ground = Born.lock_ground
          /\ ((log.op = "reset" /\ log.result = "ok") => chain' = chain)]_vars

\* A reset of a well-formed chain whose ground lock had been switched off
\* (the panel still shows it off) has put the flag back.
C2_Witness ==
    /\ WellFormed /\ log.op = "reset" /\ Returned
    /\ ~ui_lock_ground
    /\ Self.lock_ground = Born.lock_ground
    /\ Self.joints = Born.joints
    /\ Self.lengths = Born.lengths

\* C3: after a reset that returns, the chain holds a preview chain whose
\* joints are the restored joints.
C3_ResetLeavesPreview ==
    (WellFormed /\ log.op = "reset" /\ Returned) =>
        (Self.limb # None /\ Unwrap(Self.limb).joints = Self.joints)

\* C4: a solve with SevereDivergence or EnvironmentalCompensation hands the
\* caller UnsupportedClassification and leaves the joints as they were.
C4_UnsupportedIsReported ==
    [][(log'.op = "solve" /\
        log'.pose_discrepancy \in {"SevereDivergence", "EnvironmentalCompensation"}) =>
          /\ log'.result = "UnsupportedClassification"
          /\ Unwrap(chain').joints = Self.joints]_vars

\* C5: construction from fewer than two joints fails with InvalidChain and
\* produces no chain.
C5_ShortListRejected ==
    (log.op = "new" /\ Len(Born.joints) < 2) =>
        (log.result = "InvalidChain" /\ ~Built)

\* The steps of k rounds of a WithinTolerance solve, in the order claimed.
RECURSIVE Rounds(_, _)
Rounds(k, lock) ==
    IF k = 0 THEN <<>>
    ELSE <<"targets", "fwd">> \o (IF lock THEN <<"lock">> ELSE <<>>) \o <<"bwd">>
             \o Rounds(k - 1, lock)

\* C6: a WithinTolerance solve performs, for each of its `iterations`
\* rounds in turn, targets, forward pass, clamp (when the ground lock is
\* set) and backward pass, and the segment frames after the last round.
C6_RoundOrder ==
    (WellFormed /\ SolvedAs("WithinTolerance")) =>
        log.events = <<"angles">> \o Rounds(log.iterations, Acted.lock_ground)
                        \o <<"segments">>

\* C7: a WithinTolerance solve on a chain of two or more joints returns to
\* the caller, after exactly `iterations` rounds.
C7_SolveReturns ==
    (WellFormed /\ SolvedAs("WithinTolerance")) =>
        (Returned /\ log.rounds = log.iterations)

\* C8: with the ground lock set, a WithinTolerance solve of one round or
\* more completes with the root joint at the origin.
C8_RootAtOrigin ==
    (WellFormed /\ SolvedAs("WithinTolerance") /\ log.iterations >= 1
        /\ Acted.lock_ground) =>
        (Returned /\ At(Acted.joints, 0) = ZERO)

\* C9: a forward or a backward reach pass on a chain ends with every
\* consecutive pair of joints at the distance recorded for it at
\* construction.
C9_LengthsPreserved ==
    (WellFormed /\ log.op \in {"fwd_reach", "bwd_reach"}) =>
        /\ Returned
        /\ \A k \in 1..Len(Born.lengths) :
              distance(At(Self.joints, k), At(Self.joints, k - 1)) = Born.lengths[k]

\* C10: a MildDivergence solve on a chain that holds no preview chain hands
\* the caller MissingPreview.
C10_MissingPreviewReported ==
    (WellFormed /\ SolvedAs("MildDivergence") /\ Acted.limb = None) =>
        log.result = "MissingPreview"

\* The initial snapshot the chain holds.
Snapshot == Unwrap(Self.initial_state)

\* C11: right after construction the initial snapshot and the preview chain
\* hold the chain's joints and lengths, and in every later state, whatever
\* was done to the chain or to its preview chain, the snapshot still holds
\* the joints, the lengths and the ground-lock flag of construction.
C11_SnapshotIndependent ==
    Built =>
        /\ Self.initial_state # None
        /\ Snapshot.joints = Born.joints
        /\ Snapshot.lengths = Born.lengths
        /\ Snapshot.lock_ground = Born.lock_ground
        /\ (log.op = "new" =>
               /\ Self.limb # None
               /\ Unwrap(Self.limb).joints = Self.joints
               /\ Unwrap(Self.limb).lengths = Self.lengths
               /\ Snapshot.joints = Self.joints
               /\ Snapshot.lengths = Self.lengths)

\* The ground lock was switched off on the chain and on its preview chain,
\* a target was stored, and a solve on the preview chain returned: the
\* snapshot still holds what construction produced.
C11_Witness ==
    /\ WellFormed /\ SolvedAs("WithinTolerance") /\ log.on = "FantasyLimb" /\ Returned
    /\ ~Self.lock_ground /\ Born.lock_ground
    /\ Self.targets # <<>>
    /\ Unwrap(Self.limb).angles # <<>>
    /\ Snapshot.joints = Born.joints
    /\ Snapshot.lock_ground

\* C12: a finalize call leaves a preview chain whose joints, lengths and
\* ground-lock flag are the chain's at the call, and leaves the chain's own
\* joints, lengths, targets and ground-lock flag as they were.
C12_CommitCopiesChain ==
    [][log'.op = "finalize" =>
          /\ Unwrap(chain').limb # None
          /\ Unwrap(Unwrap(chain').limb).joints = Self.joints
          /\ Unwrap(Unwrap(chain').limb).lengths = Self.lengths
          /\ Unwrap(Unwrap(chain').limb).lock_ground = Self.lock_ground
          /\ Unwrap(chain').joints = Self.joints
          /\ Unwrap(chain').lengths = Self.lengths
          /\ Unwrap(chain').targets = Self.targets
          /\ Unwrap(chain').lock_ground = Self.lock_ground]_vars

\* A finalize after the ground lock was switched off and a target stored:
\* the preview chain holds the flag and the target of the chain, not those
\* of construction.
C12_Witness ==
    /\ WellFormed /\ log.op = "finalize" /\ Returned
    /\ ~Self.lock_ground /\ Self.targets # <<>>
    /\ Self.limb # None
    /\ Unwrap(Self.limb).lock_ground = Self.lock_ground
    /\ Unwrap(Self.limb).targets = Self.targets
    /\ Unwrap(Self.limb).joints = Self.joints

\* The last operation recomputed the angles of the chain it acted on.
AnglesRecomputed ==
    Built /\ (log.op = "recalculate_angles" \/ SolvedAs("WithinTolerance"))

\* C13: after an angle recomputation on a chain of two joints or more, the
\* first and the last entry of angles are both PI.
C13_BoundaryAnglesArePi ==
    (AnglesRecomputed /\ Len(Acted.joints) >= 2) =>
        /\ Acted.angles # <<>>
        /\ Acted.angles[1] = PI
        /\ Acted.angles[Len(Acted.angles)] = PI

\* A recomputation on three joints: the entry between the two boundary
\* entries is the angle at the middle joint, which is not PI here.
C13_Witness ==
    /\ WellFormed /\ log.op = "recalculate_angles" /\ Returned
    /\ Len(Self.joints) = 3 /\ Len(Self.angles) = 3
    /\ Self.angles[2] # PI
    /\ Self.angles[1] = PI /\ Self.angles[3] = PI

C15_ForwardReachInRange ==
    [][(WellFormed /\ log'.op = "fwd_reach") =>
          /\ log'.result = "ok"
          /\ At(Unwrap(chain').joints, Len(Self.joints) - 1) =
                At(Self.joints, Len(Self.joints) - 1)]_vars

\* C16: in every state from construction on, angles holds one entry per
\* joint of the chain.
C16_OneAnglePerJoint ==
    WellFormed => Len(Self.angles) = Len(Self.joints)

\* C17: a WithinTolerance solve of one round or more completes, and the
\* angles it leaves are the ones its final joint positions give.
C17_AnglesFromFinalJoints ==
    (WellFormed /\ SolvedAs("WithinTolerance") /\ log.iterations >= 1) =>
        /\ Returned
        /\ Acted.angles = recalculate_angles(Acted).angles

\* C18: in every state from construction on, whatever solves, reach passes,
\* recomputations, commits and resets were made, lengths of the chain and
\* of its preview chain holds the values construction gave it.
C18_LengthsImmutable ==
    Built =>
        /\ Self.lengths = Born.lengths
        /\ (Self.limb # None => Unwrap(Self.limb).lengths = Born.lengths)

\* A solve that has written a joint of the chain: the joints are no longer
\* those of construction, the lengths are.
C18_Witness ==
    /\ WellFormed /\ SolvedAs("WithinTolerance") /\ log.on = "RealLimb"
    /\ log.iterations >= 1
    /\ Self.joints # Born.joints
    /\ Self.lengths = Born.lengths

\* C19: a MildDivergence solve that returns, on a chain that holds a preview
\* chain, leaves every joint half-way between where it was and the preview
\* chain's joint, and performs no target step and no reach pass.
C19_MildDivergenceHalfStep ==
    [][(/\ log'.op = "solve" /\ log'.pose_discrepancy = "MildDivergence"
        /\ log'.result = "ok"
        /\ get(Self, log'.on).limb # None) =>
          /\ \A i \in 1..Len(get(Self, log'.on).joints) :
                VAdd(get(Unwrap(chain'), log'.on).joints[i],
                     get(Unwrap(chain'), log'.on).joints[i]) =
                VAdd(get(Self, log'.on).joints[i],
                     Unwrap(get(Self, log'.on).limb).joints[i])
          /\ log'.events = <<"segments">>]_vars

\* C20: construction, every solve and every reset return with the segment
\* frames recomputed as their last step, and leave one transform per
\* segment: as many transforms as lengths, one fewer than joints.
C20_FramesRecomputed ==
    (WellFormed /\ log.op \in {"new", "reset", "solve"}) =>
        /\ Returned
        /\ (log.op = "solve" =>
               log.events # <<>> /\ log.events[Len(log.events)] = "segments")
        /\ Len(Acted.segment_transforms) = Len(Acted.lengths)
        /\ Len(Acted.lengths) = Len(Acted.joints) - 1

\* C21: in every state of the running host, the ground-lock flag the control
\* panel shows and the chain's lock_ground flag are the same.
C21_PanelAgreesWithChain ==
    (WellFormed /\ Returned) => ui_lock_ground = Self.lock_ground

====
